---- MODULE Spec2Model ----
(***************************************************************************)
(* The decision process of triagebot: handlers/decision.rs                 *)
(* (handle_command, build_status_comment) and handlers/jobs.rs             *)
(* (handle_job, decision_process_handler).                                 *)
(*                                                                         *)
(* handle_command is an async fn: every `.await` is a point where another  *)
(* invocation may run, so each await is one step of the invocation.  The   *)
(* collaborators (tracker API, state store, job store) answer each call    *)
(* with success or failure; every invocation keeps the list of the calls   *)
(* it made, in order, with their outcomes.                                 *)
(***************************************************************************)
EXTENDS Integers, Sequences, FiniteSets, TLC

VARIABLES
    clock,      \* Utc::now(), in seconds since the start of the run
    db,         \* issue_decision_state table: issue -> Option<IssueDecisionState>
    inserted,   \* per issue, the states the store accepted, in order
    jobs,       \* jobs table: rows {name, due_at, metadata} in insertion order
    comments,   \* per issue, the comments posted on it, in order
    pc,         \* per handle_command task: the await it is suspended at
    inv,        \* per task: the arguments of the invocation (event, cmd)
    loc,        \* per task: the local variables of handle_command
    calls,      \* per task: the collaborator calls made so far, with outcomes
    result,     \* per task: what handle_command returned
    ncalls,     \* handle_command invocations started so far
    jpc,        \* the job runner: the await handle_job is suspended at
    jarg,       \* the job runner: handle_job's arguments (name, metadata)
    jloc,       \* the job runner: the decoded metadata
    jcalls,     \* the job runner: the calls made so far, with outcomes
    jresult,    \* the job runner: what handle_job returned
    njobs,      \* handle_job invocations started so far
    tracker,    \* the terminal actions the tracker performed: {action, url}
    ptokens,    \* the parser: the tokens of the comment being parsed
    pstart,     \* the parser: the caller's cursor when parse was called
    pinput,     \* the parser: the caller's cursor (`input`)
    presult,    \* the parser: what DecisionCommand::parse returned
    rhistory,   \* the renderer: build_status_comment's argument history
    rcurrent,   \* the renderer: build_status_comment's argument current
    routput     \* the renderer: what build_status_comment returned

vars == <<clock, db, inserted, jobs, comments, pc, inv, loc, calls, result,
          ncalls, jpc, jarg, jloc, jcalls, jresult, njobs, tracker,
          ptokens, pstart, pinput, presult, rhistory, rcurrent, routput>>

cmdVars == <<pc, inv, loc, calls, result, ncalls>>
jobVars == <<jpc, jarg, jloc, jcalls, jresult, njobs>>
parseVars == <<ptokens, pstart, pinput, presult>>
renderVars == <<rhistory, rcurrent, routput>>
pureVars == <<parseVars, renderVars>>

----------------------------------------------------------------------------
(* Bounds of the model *)

MaxCalls == 2
MaxJobRuns == 2
MaxTokens == 3
MaxHistory == 2

(* The instants at which the clock is read *)
Instants == {0, 7}

(* The tasks that run handle_command; an event is given to the first idle one *)
Tasks == {1, 2}
Issues == {1, 2}

(* The people: alice and bob are the members of the governing team (and so *)
(* team members), mallory is a member of no team.  alice and mallory write *)
(* the commands.                                                           *)
Users == {"alice", "mallory"}
AnyTeamUsers == {"alice", "bob"}
GoverningTeam == {"alice", "bob"}
NameOrder == <<"alice", "bob", "mallory">>

RepoUrl == "https://api.github.com/repos/rust-lang/rust"

None == <<>>
Some(x) == <<x>>
IsSome(o) == o # <<>>
Unwrap(o) == o[1]

----------------------------------------------------------------------------
(* parser::command::decision *)

Resolution == {"Merge", "Hold"}
Reversibility == {"Reversible", "Irreversible"}

DecisionCommand == [resolution : Resolution, reversibility : {"Reversible"}]

(* UserStatus and IssueDecisionState, as handle_command builds them *)

(* parser::token: the tokens of a comment.  A word, a dot, a comma, the end *)
(* of a line; a quote that is never closed is no token, and reading it is   *)
(* an error.                                                                *)
Word(text) == [kind |-> "Word", text |-> text]
Dot == [kind |-> "Dot", text |-> "."]
Comma == [kind |-> "Comma", text |-> ","]
EndOfLine == [kind |-> "EndOfLine", text |-> ""]
OpenQuote == [kind |-> "OpenQuote", text |-> ""]

(* Tokenizer::next_token on the cursor at position pos of tokens: the       *)
(* result and the cursor after it.  At the end of the input the token is    *)
(* the end-of-line marker, and the cursor stays.                            *)
NextToken(tokens, pos) ==
    IF pos > Len(tokens)
    THEN [ok |-> TRUE, token |-> Some(EndOfLine), pos |-> pos]
    ELSE IF tokens[pos] = OpenQuote
    THEN [ok |-> FALSE, token |-> None, pos |-> pos]
    ELSE [ok |-> TRUE, token |-> Some(tokens[pos]), pos |-> pos + 1]

(* Tokenizer::peek_token: next_token on a clone *)
PeekToken(tokens, pos) == NextToken(tokens, pos)

(* a variant that takes only the dot for the end of a command *)
is_token_eol_dot_only(token) == token = Some(Dot)

(* lines 64-70 *)
is_token_eol(token) == token = Some(Dot) \/ token = Some(EndOfLine)

NoCommand == [resolution |-> "", reversibility |-> ""]
NoResult == [outcome |-> "none", command |-> NoCommand, error |-> ""]

(* what parse returns, and the caller's cursor after the call *)
Parsed(outcome, command, error, input) ==
    [result |-> [outcome |-> outcome, command |-> command, error |-> error],
     input |-> input]

(* a variant that commits the cursor before the end of the command is seen *)
AfterKeywordEager(tokens, input, toks, resolution) ==
    IF ~PeekToken(tokens, toks).ok
    THEN Parsed("Err", NoCommand, "Tokenizer", toks)
    ELSE IF is_token_eol(PeekToken(tokens, toks).token)
    THEN Parsed("Ok(Some)",
                [resolution |-> resolution, reversibility |-> "Reversible"], "",
                NextToken(tokens, toks).pos)
    ELSE Parsed("Err", NoCommand, "ExpectedEnd", toks)

(* lines 34-43 and 48-57: after the keyword was consumed; toks is the clone's *)
(* cursor, input the caller's                                                *)
AfterKeyword(tokens, input, toks, resolution) ==
    IF ~PeekToken(tokens, toks).ok
    THEN Parsed("Err", NoCommand, "Tokenizer", input)
    ELSE IF is_token_eol(PeekToken(tokens, toks).token)
    THEN Parsed("Ok(Some)",
                [resolution |-> resolution, reversibility |-> "Reversible"], "",
                NextToken(tokens, toks).pos)
    ELSE Parsed("Err", NoCommand, "ExpectedEnd", input)

(* a variant whose keywords are matched without regard to case *)
KeywordOfAnyCase(token) ==
    IF token \in {Some(Word("merge")), Some(Word("Merge"))} THEN "Merge"
    ELSE IF token \in {Some(Word("hold")), Some(Word("Hold"))} THEN "Hold"
    ELSE ""

(* lines 30-31, 45 and 59: the match on the first token *)
Keyword(token) ==
    IF token = Some(Word("merge")) THEN "Merge"
    ELSE IF token = Some(Word("hold")) THEN "Hold"
    ELSE ""

(* lines 27-61: DecisionCommand::parse *)
DecisionCommandParse(tokens, input) ==
    IF ~PeekToken(tokens, input).ok
    THEN Parsed("Err", NoCommand, "Tokenizer", input)
    ELSE IF Keyword(PeekToken(tokens, input).token) # ""
    THEN AfterKeyword(tokens, input, NextToken(tokens, input).pos,
                      Keyword(PeekToken(tokens, input).token))
    ELSE Parsed("Ok(None)", NoCommand, "", input)

UserStatus(resolution) ==
    [comment_id |-> "comment_id", text |-> "something",
     reversibility |-> "Reversible", resolution |-> resolution]

EmptyMap == [u \in {} |-> None]

(* BTreeMap::insert: the key is added, or its value replaced *)
MapInsert(m, k, v) ==
    [u \in DOMAIN m \cup {k} |-> IF u = k THEN v ELSE m[u]]

(* BTreeMap iteration: the keys in ascending order *)
Keys(m) == SelectSeq(NameOrder, LAMBDA u : u \in DOMAIN m)

(* a variant that inserts the user first and the team members after *)
InitialCurrentTeamLast(members, login) ==
    [u \in members \cup {login} |->
        IF u \in members THEN None ELSE Some(UserStatus("Merge"))]

(* lines 101-115: every team member mapped to None, then the invoking user *)
(* mapped to a Merge vote                                                  *)
InitialCurrent(members, login) ==
    MapInsert([u \in members |-> None], login, Some(UserStatus("Merge")))

(* line 117 *)
InitialHistory == EmptyMap

(* chrono::Duration::days *)
Days(n) == n * 24 * 60 * 60

DecisionPeriodDays == 10

(* a variant with a period of a week *)
EndDateWeek(start_date) == start_date + Days(7)

(* lines 94-95: start_date.checked_add_signed(Duration::days(10)).unwrap(); *)
(* the clock is nowhere near chrono's largest date, so the sum exists       *)
EndDate(start_date) == start_date + Days(DecisionPeriodDays)

(* the arguments of insert_issue_decision_state, lines 119-129 *)
NewState(issue, login, start_date, end_date, current, history, reversibility) ==
    [issue_id |-> issue, initiator |-> login,
     period_start |-> start_date, period_end |-> end_date,
     current_statuses |-> current, status_history |-> history,
     reversibility |-> reversibility, resolution |-> "Merge"]

----------------------------------------------------------------------------
(* serde_json::Value, as far as the job metadata needs it *)

JString(s) == [kind |-> "string", s |-> s]
JObject(fields) == [kind |-> "object", fields |-> fields]
JNull == [kind |-> "null"]

(* a variant that writes the variant's name in lower case *)
SerializeResolutionLower(r) ==
    JString(CASE r = "Merge" -> "merge" [] r = "Hold" -> "hold")

(* #[derive(Serialize)] of Resolution: a unit variant is its name *)
SerializeResolution(r) == JString(r)

(* #[derive(Serialize)] of DecisionProcessActionMetadata: one key per field, *)
(* named as the field is                                                     *)
ToValue(m) ==
    JObject([k \in {"message", "get_issue_url", "status"} |->
        CASE k = "message" -> JString(m.message)
          [] k = "get_issue_url" -> JString(m.get_issue_url)
          [] k = "status" -> SerializeResolution(m.status)])

IsJString(v) == v.kind = "string"

(* #[derive(Deserialize)]: every field present with its type, the status one *)
(* of the variant names; unknown keys are ignored.  None is the error.       *)
FromValue(v) ==
    IF /\ v.kind = "object"
       /\ {"message", "get_issue_url", "status"} \subseteq DOMAIN v.fields
       /\ \A k \in {"message", "get_issue_url", "status"} : IsJString(v.fields[k])
       /\ v.fields["status"].s \in Resolution
    THEN Some([message |-> v.fields["message"].s,
               get_issue_url |-> v.fields["get_issue_url"].s,
               status |-> v.fields["status"].s])
    ELSE None

DECISION_PROCESS_JOB_NAME == "decision_process_action"

(* lines 134-138: format!("{}/issues/{}", issue.repository().url(), issue.number) *)
IssueUrl(issue) == RepoUrl \o "/issues/" \o ToString(issue)

(* a variant that schedules the job with the status Hold *)
JobMetadataHold(issue) ==
    ToValue([message |-> "some message",
             get_issue_url |-> IssueUrl(issue),
             status |-> "Hold"])

(* lines 132-141 *)
JobMetadata(issue) ==
    ToValue([message |-> "some message",
             get_issue_url |-> IssueUrl(issue),
             status |-> "Merge"])

(* lines 143-149: the row insert_job is asked to write *)
JobRow(end_date, metadata) ==
    [name |-> DECISION_PROCESS_JOB_NAME, due_at |-> end_date, metadata |-> metadata]

----------------------------------------------------------------------------
(* build_status_comment *)

resolution_to_str(resolution) ==
    CASE resolution = "Merge" -> "merge"
      [] resolution = "Hold" -> "hold"

RECURSIVE PreviousStatuses(_)
PreviousStatuses(statuses) ==
    IF statuses = <<>> THEN ""
    ELSE " ~~" \o resolution_to_str(Head(statuses).resolution) \o "~~ "
         \o PreviousStatuses(Tail(statuses))

(* lines 180-186; current.get(user).unwrap() panics when the user has no    *)
(* entry in current                                                         *)
CurrentStatusItem(current, user) ==
    IF user \notin DOMAIN current THEN "<panic>"
    ELSE " **" \o (IF IsSome(current[user])
                   THEN resolution_to_str(Unwrap(current[user]).resolution)
                   ELSE "") \o "** |"

StatusRow(history, current, user) ==
    "\n| " \o user \o " |" \o PreviousStatuses(history[user])
        \o CurrentStatusItem(current, user)

RECURSIVE StatusRows(_, _, _)
StatusRows(history, current, users) ==
    IF users = <<>> THEN ""
    ELSE StatusRow(history, current, Head(users))
         \o StatusRows(history, current, Tail(users))

TableHeader == "| Team member | State |\n|-------------|-------|"

(* lines 165-194: one row per key of history *)
build_status_comment(history, current) ==
    TableHeader \o StatusRows(history, current, Keys(history))

----------------------------------------------------------------------------
(* The collaborators: what a call may answer *)

(* github::User::is_team_member *)
IsTeamMemberResults(user) ==
    {IF user \in AnyTeamUsers THEN "true" ELSE "false", "err"}

(* db::issue_decision_state::get_issue_decision_state: the row, or an error *)
(* (no row for the issue, or the store failed)                              *)
GetIssueDecisionStateResults(store, issue) ==
    (IF IsSome(store[issue])
     THEN {[ok |-> TRUE, why |-> "found", state |-> store[issue]]}
     ELSE {[ok |-> FALSE, why |-> "not_found", state |-> None]})
    \cup {[ok |-> FALSE, why |-> "err", state |-> None]}

(* db::issue_decision_state::insert_issue_decision_state: issue_id is unique, *)
(* so an insert for an issue that has a row is rejected                       *)
InsertIssueDecisionStateResults(store, issue) ==
    IF IsSome(store[issue]) THEN {"conflict", "err"} ELSE {"ok", "err"}

(* github::get_team: Ok(Some(team)), Ok(None) or Err *)
GetTeamResults == {"some", "none", "err"}

OkOrErr == {"ok", "err"}

----------------------------------------------------------------------------
(* handle_command, decision.rs lines 35-163 *)

NoInv == [issue |-> 0, login |-> "", resolution |-> "", reversibility |-> ""]
NoLoc == [start_date |-> 0, end_date |-> 0, current |-> EmptyMap,
          history |-> EmptyMap, metadata |-> JNull, state |-> None]

Call(op, res, val) == [op |-> op, res |-> res, val |-> val]

(* a variant that only an answer of false excludes: unwrap_or(true) *)
UnwrapOrTrue(res) == res # "false"

(* line 51: .unwrap_or(false) *)
UnwrapOrFalse(res) == res = "true"

(* a variant that reports the denial to the caller as an error *)
DenialReturnErr(res) == "Err"

(* lines 58-59: cmnt.post(&ctx.github).await?; return Ok(()) *)
DenialReturn(res) == IF res = "ok" THEN "Ok" ELSE "Err"

(* lines 62-63 and 89: Ok(_state) is the only arm that sees a state *)
MatchState(r) == IF r.ok THEN "existing" ELSE "absent"

(* a variant that goes on when the team could not be fetched *)
AfterGetTeamLenient(res) ==
    CASE res = "some" -> "continue"
      [] res = "none" -> "panic"
      [] res = "err" -> "continue"

(* line 99: github::get_team(..).await?.unwrap() *)
AfterGetTeam(res) ==
    CASE res = "some" -> "continue"
      [] res = "none" -> "panic"
      [] res = "err" -> "Err"

(* a variant that takes a rejected insert for a successful one *)
AfterInsertStateConflictOk(res) ==
    IF res \in {"ok", "conflict"} THEN "continue" ELSE "Err"

(* a variant that drops the insert's result *)
AfterInsertStateIgnored(res) == "continue"

(* line 130: insert_issue_decision_state(..).await? *)
AfterInsertState(res) == IF res = "ok" THEN "continue" ELSE "Err"

(* line 149: insert_job(..).await? *)
AfterInsertJob(res) == IF res = "ok" THEN "continue" ELSE "Err"

(* lines 153-158: post_comment(..).await.context(..)?; Ok(()) *)
AfterPostComment(res) == IF res = "ok" THEN "Ok" ELSE "Err"

Finish(t, res) ==
    /\ pc' = [pc EXCEPT ![t] = "done"]
    /\ result' = [result EXCEPT ![t] = res]

Goto(t, label) ==
    /\ pc' = [pc EXCEPT ![t] = label]
    /\ UNCHANGED result

Log(t, call) == calls' = [calls EXCEPT ![t] = Append(@, call)]

Free(t) == pc[t] \in {"idle", "done"}

(* lines 41-49: the event's issue and user, the parsed command.  A task    *)
(* whose invocation has returned is free for the next event.               *)
HandleCommandStart(t, issue, login, cmd) ==
    /\ Free(t)
    /\ \A u \in Tasks : u < t => ~Free(u)
    /\ ncalls < MaxCalls
    /\ ncalls' = ncalls + 1
    /\ inv' = [inv EXCEPT ![t] = [issue |-> issue, login |-> login,
                                  resolution |-> cmd.resolution,
                                  reversibility |-> cmd.reversibility]]
    /\ loc' = [loc EXCEPT ![t] = NoLoc]
    /\ calls' = [calls EXCEPT ![t] = <<>>]
    /\ result' = [result EXCEPT ![t] = "none"]
    /\ pc' = [pc EXCEPT ![t] = "is_team_member"]
    /\ UNCHANGED <<clock, db, inserted, jobs, comments, tracker>>
    /\ UNCHANGED jobVars
    /\ UNCHANGED pureVars

(* lines 51-53 *)
CheckTeamMember(t) ==
    /\ pc[t] = "is_team_member"
    /\ \E res \in IsTeamMemberResults(inv[t].login) :
        /\ Log(t, Call("is_team_member", res, 0))
        /\ Goto(t, IF UnwrapOrFalse(res) THEN "get_state" ELSE "post_denial")
    /\ UNCHANGED <<clock, db, inserted, jobs, comments, inv, loc, ncalls, tracker>>
    /\ UNCHANGED jobVars
    /\ UNCHANGED pureVars

DenialText == "Only team members can be part of the decision process."

(* lines 53-60 *)
PostDenial(t) ==
    /\ pc[t] = "post_denial"
    /\ \E res \in OkOrErr :
        /\ Log(t, Call("post_error_comment", res, 0))
        /\ comments' = IF res = "ok"
                       THEN [comments EXCEPT ![inv[t].issue] = Append(@, DenialText)]
                       ELSE comments
        /\ Finish(t, DenialReturn(res))
    /\ UNCHANGED <<clock, db, inserted, jobs, inv, loc, ncalls, tracker>>
    /\ UNCHANGED jobVars
    /\ UNCHANGED pureVars

(* lines 62-95: the read of the state, the match on it and on the resolution, *)
(* up to the next await (get_team)                                           *)
GetState(t) ==
    /\ pc[t] = "get_state"
    /\ \E r \in GetIssueDecisionStateResults(db, inv[t].issue) :
        IF MatchState(r) = "existing"
        THEN /\ Log(t, Call("get_issue_decision_state", r.why, 0))
             /\ loc' = [loc EXCEPT ![t].state = r.state]
             /\ Finish(t, "Ok")
        ELSE IF inv[t].resolution = "Hold"
        THEN /\ Log(t, Call("get_issue_decision_state", r.why, 0))
             /\ UNCHANGED loc
             /\ Finish(t, "Ok")
        ELSE /\ calls' = [calls EXCEPT ![t] =
                    @ \o <<Call("get_issue_decision_state", r.why, 0),
                           Call("now", "ok", clock)>>]
             /\ loc' = [loc EXCEPT ![t].start_date = clock,
                                   ![t].end_date = EndDate(clock)]
             /\ Goto(t, "get_team")
    /\ UNCHANGED <<clock, db, inserted, jobs, comments, inv, ncalls, tracker>>
    /\ UNCHANGED jobVars
    /\ UNCHANGED pureVars

(* lines 99-117 *)
GetTeam(t) ==
    /\ pc[t] = "get_team"
    /\ \E res \in GetTeamResults :
        /\ Log(t, Call("get_team", res, 0))
        /\ IF AfterGetTeam(res) = "continue"
           THEN /\ loc' = [loc EXCEPT
                        ![t].current = InitialCurrent(GoverningTeam, inv[t].login),
                        ![t].history = InitialHistory]
                /\ Goto(t, "insert_state")
           ELSE /\ UNCHANGED loc
                /\ Finish(t, AfterGetTeam(res))
    /\ UNCHANGED <<clock, db, inserted, jobs, comments, inv, ncalls, tracker>>
    /\ UNCHANGED jobVars
    /\ UNCHANGED pureVars

(* lines 119-141 *)
InsertState(t) ==
    /\ pc[t] = "insert_state"
    /\ \E res \in InsertIssueDecisionStateResults(db, inv[t].issue) :
        LET state == NewState(inv[t].issue, inv[t].login, loc[t].start_date,
                              loc[t].end_date, loc[t].current, loc[t].history,
                              inv[t].reversibility)
        IN  /\ Log(t, Call("insert_issue_decision_state", res, 0))
            /\ IF res = "ok"
               THEN /\ db' = [db EXCEPT ![inv[t].issue] = Some(state)]
                    /\ inserted' = [inserted EXCEPT ![inv[t].issue] = Append(@, state)]
               ELSE UNCHANGED <<db, inserted>>
            /\ IF AfterInsertState(res) = "continue"
               THEN /\ loc' = [loc EXCEPT ![t].metadata = JobMetadata(inv[t].issue)]
                    /\ Goto(t, "insert_job")
               ELSE /\ UNCHANGED loc
                    /\ Finish(t, AfterInsertState(res))
    /\ UNCHANGED <<clock, jobs, comments, inv, ncalls, tracker>>
    /\ UNCHANGED jobVars
    /\ UNCHANGED pureVars

(* lines 143-151 *)
InsertJob(t) ==
    /\ pc[t] = "insert_job"
    /\ \E res \in OkOrErr :
        /\ Log(t, Call("insert_job", res, 0))
        /\ jobs' = IF res = "ok"
                   THEN Append(jobs, JobRow(loc[t].end_date, loc[t].metadata))
                   ELSE jobs
        /\ IF AfterInsertJob(res) = "continue"
           THEN Goto(t, "post_comment")
           ELSE Finish(t, AfterInsertJob(res))
    /\ UNCHANGED <<clock, db, inserted, comments, inv, loc, ncalls, tracker>>
    /\ UNCHANGED jobVars
    /\ UNCHANGED pureVars

(* lines 151-158 *)
PostComment(t) ==
    /\ pc[t] = "post_comment"
    /\ \E res \in OkOrErr :
        /\ Log(t, Call("post_comment", res, 0))
        /\ comments' = IF res = "ok"
                       THEN [comments EXCEPT ![inv[t].issue] =
                                Append(@, build_status_comment(loc[t].history,
                                                               loc[t].current))]
                       ELSE comments
        /\ Finish(t, AfterPostComment(res))
    /\ UNCHANGED <<clock, db, inserted, jobs, inv, loc, ncalls, tracker>>
    /\ UNCHANGED jobVars
    /\ UNCHANGED pureVars

(* time passes *)
Tick ==
    /\ \E later \in Instants :
        /\ later > clock
        /\ clock' = later
    /\ UNCHANGED <<db, inserted, jobs, comments, tracker>>
    /\ UNCHANGED cmdVars
    /\ UNCHANGED jobVars
    /\ UNCHANGED pureVars

----------------------------------------------------------------------------
(* handle_job and decision_process_handler, jobs.rs *)

JobNames == {"docs_update", "rustc_commits", DECISION_PROCESS_JOB_NAME, "unrelated_job"}

NoFields == [k \in {} |-> JNull]

(* Metadata found in the jobs table: what handle_command writes for an    *)
(* issue, a well-formed hold action, an empty object, and an object with  *)
(* other keys and values                                                  *)
OtherMetadata ==
    {JobMetadata(i) : i \in Issues}
    \cup {ToValue([message |-> "some message", get_issue_url |-> IssueUrl(i),
                   status |-> "Hold"]) : i \in Issues}
    \cup {JObject(NoFields),
          JObject([k \in {"message", "issue_url", "status"} |->
            CASE k = "message" -> JString("some message")
              [] k = "issue_url" -> JString(IssueUrl(1))
              [] k = "status" -> JString("merge")])}

NoJob == [name |-> "", metadata |-> JNull]
NoMeta == [message |-> "", get_issue_url |-> "", status |-> ""]

JCall(op, res, url) == [op |-> op, res |-> res, url |-> url]

(* a variant whose fallback arm is the decision process handler *)
RouteFallbackDecision(name) ==
    CASE name = "docs_update" -> "docs_update"
      [] name = "rustc_commits" -> "rustc_commits"
      [] OTHER -> "decision_process_handler"

(* lines 18-28: the match on the name *)
Route(name) ==
    CASE name = "docs_update" -> "docs_update"
      [] name = "rustc_commits" -> "rustc_commits"
      [] name = DECISION_PROCESS_JOB_NAME -> "decision_process_handler"
      [] OTHER -> "default"

(* lines 31-39: default() *)
DefaultResult == "Ok"

(* a variant that drops a payload it cannot decode *)
AfterDecodeDropped(decoded) == IF IsSome(decoded) THEN "continue" ELSE "Ok"

(* line 47: serde_json::from_value(metadata.clone())? *)
AfterDecode(decoded) == IF IsSome(decoded) THEN "continue" ELSE "Err"

(* a variant with the two arms exchanged *)
TerminalActionSwapped(status) ==
    CASE status = "Merge" -> "close"
      [] status = "Hold" -> "merge"

(* lines 52-55: the match on metadata.status *)
TerminalAction(status) ==
    CASE status = "Merge" -> "merge"
      [] status = "Hold" -> "close"

(* lines 53-54 and 63: issue.merge(..).await? / issue.close(..).await?; Ok(()) *)
AfterTerminal(res) == IF res = "ok" THEN "Ok" ELSE "Err"

(* a variant that returns the fetch's failure to the caller *)
AfterFetchErrorPropagated == "Err"

(* lines 56-63: the fetch failed: log::error!, then Ok(()) *)
AfterFetchError == "Ok"

JFinish(res) ==
    /\ jpc' = "done"
    /\ jresult' = res

JGoto(label) ==
    /\ jpc' = label
    /\ jresult' = "none"

(* lines 13-28 and 41-49: the dispatch, up to the first await *)
JobStart(name, metadata) ==
    /\ jpc \in {"idle", "done"}
    /\ njobs < MaxJobRuns
    /\ njobs' = njobs + 1
    /\ jarg' = [name |-> name, metadata |-> metadata]
    /\ jcalls' = <<>>
    /\ CASE Route(name) = "docs_update" ->
                /\ JGoto("docs_update")
                /\ jloc' = NoMeta
         [] Route(name) = "rustc_commits" ->
                /\ JGoto("rustc_commits")
                /\ jloc' = NoMeta
         [] Route(name) = "decision_process_handler" ->
                IF AfterDecode(FromValue(metadata)) = "continue"
                THEN /\ jloc' = Unwrap(FromValue(metadata))
                     /\ JGoto("get_issue")
                ELSE /\ jloc' = NoMeta
                     /\ JFinish(AfterDecode(FromValue(metadata)))
         [] Route(name) = "default" ->
                /\ jloc' = NoMeta
                /\ JFinish(DefaultResult)
    /\ UNCHANGED <<clock, db, inserted, jobs, comments, tracker>>
    /\ UNCHANGED cmdVars
    /\ UNCHANGED pureVars

(* line 19: super::docs_update::handle_job().await *)
JobDocsUpdate ==
    /\ jpc = "docs_update"
    /\ \E res \in OkOrErr :
        /\ jcalls' = Append(jcalls, JCall("docs_update::handle_job", res, ""))
        /\ JFinish(IF res = "ok" THEN "Ok" ELSE "Err")
    /\ UNCHANGED <<clock, db, inserted, jobs, comments, jarg, jloc, njobs, tracker>>
    /\ UNCHANGED cmdVars
    /\ UNCHANGED pureVars

(* lines 20-23: synchronize_commits_inner(ctx, None).await; Ok(()) *)
JobRustcCommits ==
    /\ jpc = "rustc_commits"
    /\ jcalls' = Append(jcalls, JCall("synchronize_commits_inner", "ok", ""))
    /\ JFinish("Ok")
    /\ UNCHANGED <<clock, db, inserted, jobs, comments, jarg, jloc, njobs, tracker>>
    /\ UNCHANGED cmdVars
    /\ UNCHANGED pureVars

(* lines 48-51 and 56-63 *)
JobGetIssue ==
    /\ jpc = "get_issue"
    /\ \E res \in OkOrErr :
        /\ jcalls' = Append(jcalls, JCall("get_issue", res, jloc.get_issue_url))
        /\ IF res = "ok" THEN JGoto("terminal") ELSE JFinish(AfterFetchError)
    /\ UNCHANGED <<clock, db, inserted, jobs, comments, jarg, jloc, njobs, tracker>>
    /\ UNCHANGED cmdVars
    /\ UNCHANGED pureVars

(* lines 52-55 and 63 *)
JobTerminal ==
    /\ jpc = "terminal"
    /\ \E res \in OkOrErr :
        LET action == TerminalAction(jloc.status)
        IN  /\ jcalls' = Append(jcalls, JCall(action, res, jloc.get_issue_url))
            /\ tracker' = IF res = "ok"
                          THEN tracker \cup {[action |-> action,
                                              url |-> jloc.get_issue_url]}
                          ELSE tracker
            /\ JFinish(AfterTerminal(res))
    /\ UNCHANGED <<clock, db, inserted, jobs, comments, jarg, jloc, njobs>>
    /\ UNCHANGED cmdVars
    /\ UNCHANGED pureVars

----------------------------------------------------------------------------

Range(seq) == {seq[i] : i \in 1..Len(seq)}

InitSystem ==
    /\ clock = 0
    /\ db = [i \in Issues |-> None]
    /\ inserted = [i \in Issues |-> <<>>]
    /\ jobs = <<>>
    /\ comments = [i \in Issues |-> <<>>]
    /\ pc = [t \in Tasks |-> "idle"]
    /\ inv = [t \in Tasks |-> NoInv]
    /\ loc = [t \in Tasks |-> NoLoc]
    /\ calls = [t \in Tasks |-> <<>>]
    /\ result = [t \in Tasks |-> "none"]
    /\ ncalls = 0
    /\ jpc = "idle"
    /\ jarg = NoJob
    /\ jloc = NoMeta
    /\ jcalls = <<>>
    /\ jresult = "none"
    /\ njobs = 0
    /\ tracker = {}

(* no comment is being parsed *)
ParseIdle ==
    /\ ptokens = <<>>
    /\ pstart = 1
    /\ pinput = 1
    /\ presult = NoResult

(* no table is being rendered *)
RenderIdle ==
    /\ rhistory = EmptyMap
    /\ rcurrent = EmptyMap
    /\ routput = "none"

Init == InitSystem /\ ParseIdle /\ RenderIdle

HandleCommand ==
    \E t \in Tasks :
        \/ \E issue \in Issues, login \in Users, cmd \in DecisionCommand :
                HandleCommandStart(t, issue, login, cmd)
        \/ CheckTeamMember(t)
        \/ PostDenial(t)
        \/ GetState(t)
        \/ GetTeam(t)
        \/ InsertState(t)
        \/ InsertJob(t)
        \/ PostComment(t)

HandleJob ==
    \/ \E name \in JobNames :
        \E metadata \in OtherMetadata \cup {row.metadata : row \in Range(jobs)} :
            JobStart(name, metadata)
    \/ JobDocsUpdate
    \/ JobRustcCommits
    \/ JobGetIssue
    \/ JobTerminal

(* The webhook path: concurrent handle_command invocations, and the clock *)
NextCommand == HandleCommand \/ Tick

SpecCommand == Init /\ [][NextCommand]_vars

(* The scheduled-job path: the job runner calls handle_job, one job at a time *)
NextJob == HandleJob

SpecJob == Init /\ [][NextJob]_vars

(* Both paths together: the job runner takes the rows handle_command wrote *)
(* to the jobs table and hands each to handle_job, while further commands  *)
(* arrive                                                                  *)
RunScheduledJob ==
    \E row \in Range(jobs) : JobStart(row.name, row.metadata)

(* the commands of the pipeline all concern one issue *)
PipelineIssue == 1

HandleCommandOnIssue ==
    \E t \in Tasks :
        \/ \E login \in Users, cmd \in DecisionCommand :
                HandleCommandStart(t, PipelineIssue, login, cmd)
        \/ CheckTeamMember(t)
        \/ PostDenial(t)
        \/ GetState(t)
        \/ GetTeam(t)
        \/ InsertState(t)
        \/ InsertJob(t)
        \/ PostComment(t)

NextPipeline ==
    \/ HandleCommandOnIssue
    \/ RunScheduledJob
    \/ JobGetIssue
    \/ JobTerminal

SpecPipeline == Init /\ [][NextPipeline]_vars

----------------------------------------------------------------------------
(* The command parser on a comment: the dispatcher hands parse its cursor *)

InputTokens ==
    {Word("merge"), Word("hold"), Word("Merge"), Word("my"),
     Dot, Comma, EndOfLine, OpenQuote}

RECURSIVE SeqsUpTo(_, _)
SeqsUpTo(S, n) ==
    IF n = 0 THEN {<<>>}
    ELSE SeqsUpTo(S, n - 1)
         \cup {Append(q, x) : q \in {r \in SeqsUpTo(S, n - 1) : Len(r) = n - 1}, x \in S}

InitParse ==
    /\ InitSystem
    /\ RenderIdle
    /\ ptokens \in SeqsUpTo(InputTokens, MaxTokens)
    /\ pstart \in 1..(Len(ptokens) + 1)
    /\ pinput = pstart
    /\ presult = NoResult

(* DecisionCommand::parse(&mut input) *)
Parse ==
    /\ presult = NoResult
    /\ presult' = DecisionCommandParse(ptokens, pinput).result
    /\ pinput' = DecisionCommandParse(ptokens, pinput).input
    /\ UNCHANGED <<ptokens, pstart>>
    /\ UNCHANGED <<clock, db, inserted, jobs, comments, tracker>>
    /\ UNCHANGED <<cmdVars, jobVars, renderVars>>

NextParse == Parse

SpecParse == InitParse /\ [][NextParse]_vars

----------------------------------------------------------------------------
(* The renderer on a pair of maps: build_status_comment(&history, &current) *)

Resolutions == {"Merge", "Hold"}

(* Vec<UserStatus>: the votes a member has cast before the current one *)
StatusLists ==
    {[i \in 1..Len(q) |-> UserStatus(q[i])] : q \in SeqsUpTo(Resolutions, MaxHistory)}

(* Option<UserStatus>: the member's current vote *)
CurrentVotes == {None} \cup {Some(UserStatus(r)) : r \in Resolutions}

(* BTreeMap<String, V> over the governing team *)
MapsTo(V) == UNION {[members -> V] : members \in SUBSET GoverningTeam}

(* line 180: current.get(user).unwrap() panics on a key of history that     *)
(* current does not have; otherwise the function returns the comment        *)
RenderResult(history, current) ==
    IF DOMAIN history \subseteq DOMAIN current
    THEN build_status_comment(history, current)
    ELSE "panic"

InitRender ==
    /\ InitSystem
    /\ ParseIdle
    /\ rhistory \in MapsTo(StatusLists)
    /\ rcurrent \in MapsTo(CurrentVotes)
    /\ routput = "none"

Render ==
    /\ routput = "none"
    /\ routput' = RenderResult(rhistory, rcurrent)
    /\ UNCHANGED <<rhistory, rcurrent>>
    /\ UNCHANGED <<clock, db, inserted, jobs, comments, tracker>>
    /\ UNCHANGED <<cmdVars, jobVars, parseVars>>

NextRender == Render

SpecRender == InitRender /\ [][NextRender]_vars

----------------------------------------------------------------------------

(* Reading an invocation's list of calls *)

OpsOf(log) == [i \in 1..Len(log) |-> log[i].op]

Answered(log, op, res) ==
    \E i \in 1..Len(log) : log[i].op = op /\ log[i].res = res

Called(log, op) == \E i \in 1..Len(log) : log[i].op = op

Times(log, op) == Cardinality({i \in 1..Len(log) : log[i].op = op})

(* the invoking user was not let in: not a member, or the check failed *)
Unauthorized(t) ==
    \/ Answered(calls[t], "is_team_member", "false")
    \/ Answered(calls[t], "is_team_member", "err")

Authorized(t) == Answered(calls[t], "is_team_member", "true")

IsStatusTable(body) == body # DenialText

JobsFor(issue) ==
    {i \in 1..Len(jobs) :
        jobs[i].metadata.fields["get_issue_url"].s = IssueUrl(issue)}

----------------------------------------------------------------------------
(* The claims *)

(* C1: for every issue the store accepts at most one IssueDecisionState,    *)
(* whatever the interleaving of handle_command invocations; the live state  *)
(* stays the one that was accepted (it is never overwritten or merged       *)
(* into), and an invocation whose insert was rejected as a conflict returns *)
(* an error to its caller.                                                  *)
C1_AtMostOneState ==
    /\ \A i \in Issues :
        /\ Len(inserted[i]) <= 1
        /\ db[i] = (IF inserted[i] = <<>> THEN None ELSE Some(inserted[i][1]))
    /\ \A t \in Tasks :
        (pc[t] = "done" /\ Answered(calls[t], "insert_issue_decision_state", "conflict"))
            => result[t] = "Err"

(* two merge commands on one issue both saw no state; one insert was        *)
(* accepted, the other rejected as a conflict                               *)
C1_Witness ==
    \E t \in Tasks, u \in Tasks :
        /\ t # u
        /\ inv[t].issue = inv[u].issue
        /\ Answered(calls[t], "get_issue_decision_state", "not_found")
        /\ Answered(calls[u], "get_issue_decision_state", "not_found")
        /\ Answered(calls[t], "insert_issue_decision_state", "ok")
        /\ Answered(calls[u], "insert_issue_decision_state", "conflict")
        /\ pc[u] = "done"

(* a merge command of a team member on an issue without a state, with no    *)
(* collaborator failing, has returned                                       *)
OpenedCleanly(t) ==
    /\ pc[t] = "done"
    /\ inv[t].resolution = "Merge"
    /\ Authorized(t)
    /\ Answered(calls[t], "get_issue_decision_state", "not_found")
    /\ \A i \in 1..Len(calls[t]) :
        calls[t][i].res \in {"true", "not_found", "ok", "some"}

(* C2: a merge command of a team member on an issue with no decision state, *)
(* no collaborator failing, makes exactly one state insert (the invoking    *)
(* member mapped to a Merge vote, every other member of the governing team  *)
(* to no vote, the history empty), then schedules exactly one job named     *)
(* decision_process_action whose metadata status is merge, then posts       *)
(* exactly one comment, the rendered status table.                          *)
C2_OpenMergeDecision ==
    \A t \in Tasks : OpenedCleanly(t) =>
        LET issue == inv[t].issue
            login == inv[t].login
        IN  /\ OpsOf(calls[t]) = <<"is_team_member", "get_issue_decision_state",
                                   "now", "get_team", "insert_issue_decision_state",
                                   "insert_job", "post_comment">>
            /\ result[t] = "Ok"
            /\ Len(inserted[issue]) = 1
            /\ LET state == inserted[issue][1]
                   current == state.current_statuses
               IN  /\ DOMAIN current = GoverningTeam \cup {login}
                   /\ current[login] # None
                   /\ Unwrap(current[login]).resolution = "Merge"
                   /\ \A u \in GoverningTeam \ {login} : current[u] = None
                   /\ DOMAIN state.status_history = {}
                   /\ Cardinality({i \in 1..Len(comments[issue]) :
                        comments[issue][i] =
                            build_status_comment(state.status_history, current)}) = 1
            /\ Cardinality(JobsFor(issue)) = 1
            /\ \A i \in JobsFor(issue) :
                /\ jobs[i].name = "decision_process_action"
                /\ jobs[i].metadata.fields["status"] = SerializeResolution("Merge")
            /\ Cardinality({i \in 1..Len(comments[issue]) :
                    IsStatusTable(comments[issue][i])}) = 1

C2_Witness == \E t \in Tasks : OpenedCleanly(t) /\ inv[t].login = "alice"

(* C3: when the invoking user is not a team member, or the membership check *)
(* fails, handle_command posts the rejection comment and stops: it makes no *)
(* other call (no read or write of the state store, no team fetch, no job,  *)
(* no status table).                                                        *)
C3_FailClosed ==
    \A t \in Tasks : Unauthorized(t) =>
        /\ pc[t] \in {"post_denial", "done"}
        /\ pc[t] = "post_denial" => OpsOf(calls[t]) = <<"is_team_member">>
        /\ pc[t] = "done" =>
            OpsOf(calls[t]) = <<"is_team_member", "post_error_comment">>

(* the membership check failed, and the invocation has returned *)
C3_Witness ==
    \E t \in Tasks :
        /\ pc[t] = "done"
        /\ Answered(calls[t], "is_team_member", "err")
        /\ Answered(calls[t], "post_error_comment", "ok")
        /\ DenialText \in Range(comments[inv[t].issue])

(* C4 as stated: an invocation that was not authorized returns success,     *)
(* whatever became of the denial comment.                                   *)
C4_DenialNeverAnError ==
    \A t \in Tasks : (pc[t] = "done" /\ Unauthorized(t)) => result[t] = "Ok"

(* C4, amended: an invocation that was not authorized returns success when  *)
(* the denial comment was posted, and the error when posting it failed.     *)
C4_DenialReturnsPostResult ==
    \A t \in Tasks : (pc[t] = "done" /\ Unauthorized(t)) =>
        /\ Answered(calls[t], "post_error_comment", "ok") => result[t] = "Ok"
        /\ Answered(calls[t], "post_error_comment", "err") => result[t] = "Err"

(* a denied command whose comment was posted has returned success *)
C4_Witness ==
    \E t \in Tasks :
        /\ pc[t] = "done"
        /\ Unauthorized(t)
        /\ Answered(calls[t], "post_error_comment", "ok")
        /\ result[t] = "Ok"

(* a command of a member was accepted while the issue had a state in which *)
(* that member had a vote                                                  *)
VotedAgain(t) ==
    /\ pc[t] = "done"
    /\ result[t] = "Ok"
    /\ Answered(calls[t], "get_issue_decision_state", "found")
    /\ inv[t].login \in DOMAIN Unwrap(loc[t].state).current_statuses
    /\ Unwrap(loc[t].state).current_statuses[inv[t].login] # None

(* C5: after a member's second accepted command on an issue's decision,     *)
(* that member's status_history holds exactly their first vote and          *)
(* current_statuses holds their second vote.                                *)
C5_SecondVoteArchivesFirst ==
    \A t \in Tasks : VotedAgain(t) =>
        LET login == inv[t].login
            before == Unwrap(loc[t].state)
            after == Unwrap(db[inv[t].issue])
        IN  /\ login \in DOMAIN after.status_history
            /\ after.status_history[login] = <<Unwrap(before.current_statuses[login])>>
            /\ after.current_statuses[login] # None
            /\ Unwrap(after.current_statuses[login]).resolution = inv[t].resolution

FailedAfterAuthorization(t) ==
    \E i \in 1..Len(calls[t]) :
        /\ calls[t][i].op \in {"get_issue_decision_state", "get_team",
                               "insert_issue_decision_state", "insert_job",
                               "post_comment"}
        /\ calls[t][i].res \in {"err", "conflict"}

(* C6: once the invoking user is authorized, a failure of any collaborator  *)
(* call (state read, team fetch, state insert, job insert, comment post)    *)
(* makes handle_command return an error; a failed state read is not taken   *)
(* for "no decision exists".  (An invocation that panicked returned         *)
(* nothing, and is not counted.)                                            *)
C6_FailuresSurface ==
    \A t \in Tasks :
        (/\ pc[t] = "done"
         /\ result[t] # "panic"
         /\ Authorized(t)
         /\ FailedAfterAuthorization(t))
            => result[t] = "Err"

(* the clock reading of the invocation: the value Utc::now() returned *)
NowOf(t) ==
    LET i == CHOOSE i \in 1..Len(calls[t]) : calls[t][i].op = "now"
    IN  calls[t][i].val

(* C7: a decision opened at time T is stored with period_start = T and      *)
(* period_end = T + 10 days, and the job scheduled for it is due at that    *)
(* period_end.                                                              *)
C7_TenDayWindow ==
    \A t \in Tasks :
        Answered(calls[t], "insert_issue_decision_state", "ok") =>
            LET state == Unwrap(db[inv[t].issue])
            IN  /\ state.period_start = NowOf(t)
                /\ state.period_end = NowOf(t) + 10 * 24 * 60 * 60
                /\ Answered(calls[t], "insert_job", "ok") =>
                    /\ JobsFor(inv[t].issue) # {}
                    /\ \A i \in JobsFor(inv[t].issue) :
                        /\ jobs[i].due_at = state.period_end
                        /\ jobs[i].due_at = NowOf(t) + 10 * 24 * 60 * 60

(* a decision opened after the clock has advanced, with its job scheduled *)
C7_Witness ==
    \E t \in Tasks :
        /\ Answered(calls[t], "insert_issue_decision_state", "ok")
        /\ Answered(calls[t], "insert_job", "ok")
        /\ NowOf(t) = 7

----------------------------------------------------------------------------
(* The claims about handle_job *)

RegisteredNames == {"docs_update", "rustc_commits", "decision_process_action"}

(* C8: handle_job with a name of no registered job kind returns success and *)
(* has no side effect: it makes no call (no issue fetch, merge or close),   *)
(* and the step that dispatches it leaves the stores and the tracker as     *)
(* they were.                                                               *)
C8_UnknownJobNoEffect ==
    /\ [](jarg.name \notin RegisteredNames \cup {""} =>
            /\ jpc = "done"
            /\ jresult = "Ok"
            /\ jcalls = <<>>)
    /\ [][jarg'.name \notin RegisteredNames \cup {""} =>
            UNCHANGED <<db, inserted, jobs, comments, tracker>>]_vars

(* an unknown name came with metadata the decision handler would act on *)
C8_Witness ==
    /\ jpc = "done"
    /\ jarg.name = "unrelated_job"
    /\ FromValue(jarg.metadata) # None
    /\ jresult = "Ok"

(* a decision_process_action job whose metadata decodes, its issue fetched *)
FetchedDecisionJob ==
    /\ jpc = "done"
    /\ jarg.name = "decision_process_action"
    /\ Answered(jcalls, "get_issue", "ok")

(* C9: for a decision_process_action job whose metadata decodes and whose   *)
(* issue fetch succeeds, the dispatcher makes exactly one terminal call:    *)
(* merge (and no close) for status Merge, close (and no merge) for Hold.    *)
C9_TerminalActionByStatus ==
    FetchedDecisionJob =>
        LET status == jarg.metadata.fields["status"].s
            url == jarg.metadata.fields["get_issue_url"].s
        IN  /\ Len(jcalls) = 2
            /\ jcalls[2].url = url
            /\ status = "Merge" => jcalls[2].op = "merge" /\ ~Called(jcalls, "close")
            /\ status = "Hold" => jcalls[2].op = "close" /\ ~Called(jcalls, "merge")
            /\ jcalls[2].res = "ok" =>
                [action |-> jcalls[2].op, url |-> url] \in tracker

(* a hold job closed its issue, after a merge job merged one *)
C9_Witness ==
    /\ FetchedDecisionJob
    /\ jarg.metadata.fields["status"].s = "Hold"
    /\ Answered(jcalls, "close", "ok")
    /\ \E a \in tracker : a.action = "merge"

(* C10: a decision_process_action job whose metadata does not decode makes  *)
(* handle_job return an error, with no issue fetch, merge or close.         *)
C10_UndecodableIsError ==
    (jarg.name = "decision_process_action" /\ FromValue(jarg.metadata) = None) =>
        /\ jpc = "done"
        /\ jresult = "Err"
        /\ jcalls = <<>>

(* the payload has the keys message, issue_url and status, and does not decode *)
C10_Witness ==
    /\ jpc = "done"
    /\ jarg.name = "decision_process_action"
    /\ FromValue(jarg.metadata) = None
    /\ "issue_url" \in DOMAIN jarg.metadata.fields

----------------------------------------------------------------------------
(* The claims about the job metadata *)

(* the rows of the jobs table that a task's insert_job wrote *)
Scheduled(t) ==
    IF Answered(calls[t], "insert_job", "ok") THEN JobsFor(inv[t].issue) ELSE {}

----------------------------------------------------------------------------
(* The claims about DecisionCommand::parse *)

Returned == presult # NoResult

(* the token at the caller's cursor when parse was called, and the one after *)
FirstToken == IF pstart > Len(ptokens) THEN EndOfLine ELSE ptokens[pstart]
SecondToken == IF pstart + 1 > Len(ptokens) THEN EndOfLine ELSE ptokens[pstart + 1]

IsKeyword(token) == token = Word("merge") \/ token = Word("hold")
IsEnd(token) == token = Dot \/ token = EndOfLine

(* C12: when the next token is the word merge or hold, followed by a dot   *)
(* or the end of the input, parse returns the command {Merge, Reversible}  *)
(* or {Hold, Reversible}, and the caller's cursor is past the keyword and  *)
(* past the terminator; every command returned is Reversible.              *)
C12_ParseAccepts ==
    Returned =>
        /\ (IsKeyword(FirstToken) /\ IsEnd(SecondToken)) =>
            /\ presult.outcome = "Ok(Some)"
            /\ presult.command.resolution =
                    (IF FirstToken = Word("merge") THEN "Merge" ELSE "Hold")
            /\ pinput = (IF pstart + 1 > Len(ptokens) THEN pstart + 1 ELSE pstart + 2)
        /\ presult.outcome = "Ok(Some)" => presult.command.reversibility = "Reversible"

(* "hold." was parsed from a comment with more after it *)
C12_Witness ==
    /\ Returned
    /\ FirstToken = Word("hold")
    /\ pstart + 1 <= Len(ptokens)
    /\ ptokens[pstart + 1] = Dot
    /\ pstart + 2 <= Len(ptokens)
    /\ presult.outcome = "Ok(Some)"

(* C13: when the next token is merge or hold and the token after it is     *)
(* neither a dot nor the end of the input, parse fails with ExpectedEnd    *)
(* and the caller's cursor is where it was.                                *)
C13_ParseExpectedEnd ==
    (/\ Returned
     /\ IsKeyword(FirstToken)
     /\ SecondToken # OpenQuote
     /\ ~IsEnd(SecondToken)) =>
        /\ presult.outcome = "Err"
        /\ presult.error = "ExpectedEnd"
        /\ pinput = pstart

(* "hold my ..." *)
C13_Witness ==
    /\ Returned
    /\ FirstToken = Word("hold")
    /\ SecondToken = Word("my")
    /\ presult.error = "ExpectedEnd"

(* C14: when the next token is anything but the exact word merge or hold,  *)
(* parse returns None, raises no error, and the caller's cursor is where   *)
(* it was.                                                                 *)
C14_ParseNotThisCommand ==
    (/\ Returned
     /\ FirstToken # OpenQuote
     /\ ~IsKeyword(FirstToken)) =>
        /\ presult.outcome = "Ok(None)"
        /\ presult.error = ""
        /\ pinput = pstart

(* "Merge." is not the keyword *)
C14_Witness ==
    /\ Returned
    /\ FirstToken = Word("Merge")
    /\ SecondToken = Dot
    /\ presult.outcome = "Ok(None)"


----------------------------------------------------------------------------
(* Reading a rendered table *)

Rendered == routput # "none"

(* the row the specification describes: the superseded votes struck         *)
(* through, then the current vote in bold, or nothing when there is none    *)
DescribedRow(history, current, user) ==
    "\n| " \o user \o " |"
        \o (IF user \in DOMAIN history THEN PreviousStatuses(history[user]) ELSE "")
        \o (IF user \in DOMAIN current /\ IsSome(current[user])
            THEN " **" \o resolution_to_str(Unwrap(current[user]).resolution) \o "** |"
            ELSE " |")

RECURSIVE DescribedRows(_, _, _)
DescribedRows(history, current, users) ==
    IF users = <<>> THEN ""
    ELSE DescribedRow(history, current, Head(users))
         \o DescribedRows(history, current, Tail(users))

(* the table over the members of both maps, in ascending order *)
DescribedTable(history, current) ==
    TableHeader
        \o DescribedRows(history, current,
                         SelectSeq(NameOrder,
                                   LAMBDA u : u \in DOMAIN history \cup DOMAIN current))

(* C15: when both maps have the same members, build_status_comment returns  *)
(* the header and one row per member in ascending order, each row the       *)
(* member's superseded votes struck through in stored order and then the    *)
(* current vote in bold, or an empty cell when the member has no vote.      *)
(* The code does not do this: a member with no vote gets the cell " **** ". *)
C15_RendersDescribedTable ==
    (Rendered /\ DOMAIN rhistory = DOMAIN rcurrent)
        => routput = DescribedTable(rhistory, rcurrent)


(* the table with the code's cells, over the members of both maps *)
RECURSIVE UnionRows(_, _, _)
UnionRows(history, current, users) ==
    IF users = <<>> THEN ""
    ELSE "\n| " \o Head(users) \o " |"
         \o (IF Head(users) \in DOMAIN history
             THEN PreviousStatuses(history[Head(users)]) ELSE "")
         \o CurrentStatusItem(current, Head(users))
         \o UnionRows(history, current, Tail(users))

UnionTable(history, current) ==
    TableHeader
        \o UnionRows(history, current,
                     SelectSeq(NameOrder,
                               LAMBDA u : u \in DOMAIN history \cup DOMAIN current))

(* C16: the status table has a row for every member of current_statuses,    *)
(* also for a member with no entry in the history: the comment posted when  *)
(* a decision is opened has a row for the initiator and for every team      *)
(* member.  The code does not do this: it walks the history alone, which is *)
(* empty when the decision is opened, and posts the bare header.            *)
C16_TableCoversCurrent ==
    \A issue \in Issues : \A i \in 1..Len(comments[issue]) :
        (IsStatusTable(comments[issue][i]) /\ Len(inserted[issue]) > 0)
            => comments[issue][i] =
                   UnionTable(inserted[issue][1].status_history,
                              inserted[issue][1].current_statuses)


(* the call at position i of the log was made after a call of op answered res *)
Earlier(log, i, op, res) ==
    \E j \in 1..(i - 1) : log[j].op = op /\ log[j].res = res

(* C17: in the open-decision path the side effects come in the order team   *)
(* resolution, state write, comment post: the state insert is attempted     *)
(* only after the membership check answered true and the team list was      *)
(* fetched, never after either failed, and the status comment is posted     *)
(* only after the insert succeeded, never after it failed.                  *)
C17_OrderedSideEffects ==
    \A t \in Tasks :
        LET log == calls[t]
        IN  /\ \A i \in 1..Len(log) :
                log[i].op = "insert_issue_decision_state"
                    => /\ Earlier(log, i, "is_team_member", "true")
                       /\ Earlier(log, i, "get_team", "some")
            /\ \A i \in 1..Len(log) :
                log[i].op = "post_comment"
                    => Earlier(log, i, "insert_issue_decision_state", "ok")
            /\ (Unauthorized(t) \/ Answered(log, "get_team", "err")
                    \/ Answered(log, "get_team", "none"))
                    => ~Called(log, "insert_issue_decision_state")
            /\ (Answered(log, "insert_issue_decision_state", "err")
                    \/ Answered(log, "insert_issue_decision_state", "conflict"))
                    => ~Called(log, "post_comment")

C17_Witness ==
    \E t, u \in Tasks :
        /\ pc[t] = "done" /\ pc[u] = "done"
        /\ Answered(calls[t], "get_team", "err")
        /\ Answered(calls[u], "insert_issue_decision_state", "err")
        /\ result[t] = "Err" /\ result[u] = "Err"


(* C18: when handle_command returns an error while opening a decision, it   *)
(* leaves no partial side effects: not a persisted state without its        *)
(* scheduled job and posted status comment, and not a posted comment        *)
(* without a persisted state.  The code does not do this: a failure of      *)
(* insert_job or of post_comment is returned after the state was written.   *)
C18_NoPartialEffects ==
    \A t \in Tasks :
        (pc[t] = "done" /\ result[t] = "Err" /\ Authorized(t))
            => /\ Answered(calls[t], "insert_issue_decision_state", "ok")
                    => /\ Answered(calls[t], "insert_job", "ok")
                       /\ Answered(calls[t], "post_comment", "ok")
               /\ Answered(calls[t], "post_comment", "ok")
                    => Answered(calls[t], "insert_issue_decision_state", "ok")


FetchFailedDecisionJob ==
    /\ jarg.name = "decision_process_action"
    /\ Answered(jcalls, "get_issue", "err")

(* C19: when the issue fetch of a decision_process_action job fails, the    *)
(* invocation ends there: the fetch is its only call (no second fetch, no   *)
(* merge, no close) and handle_job returns success.                         *)
C19_FetchFailureIsHandled ==
    FetchFailedDecisionJob =>
        /\ jpc = "done"
        /\ jresult = "Ok"
        /\ OpsOf(jcalls) = <<"get_issue">>
        /\ jcalls[1].url = jarg.metadata.fields["get_issue_url"].s

(* the fetch failed for a merge job and the invocation has returned *)
C19_Witness ==
    /\ FetchFailedDecisionJob
    /\ jpc = "done"
    /\ jarg.metadata.fields["status"].s = "Merge"
    /\ tracker = {}


(* C20: whatever the sequence and interleaving of handle_command            *)
(* invocations, at most one finalize job is scheduled per issue; insert_job *)
(* is called only after the state insert for that issue succeeded in the    *)
(* same invocation; a command that finds a state for its issue, or whose    *)
(* insert is rejected, schedules nothing.                                   *)
C20_AtMostOneJobPerIssue ==
    /\ \A issue \in Issues :
        /\ Cardinality(JobsFor(issue)) <= 1
        /\ Cardinality(JobsFor(issue)) <= Len(inserted[issue])
    /\ \A t \in Tasks :
        LET log == calls[t]
        IN  /\ \A i \in 1..Len(log) :
                log[i].op = "insert_job"
                    => Earlier(log, i, "insert_issue_decision_state", "ok")
            /\ (Answered(log, "get_issue_decision_state", "found")
                    \/ Answered(log, "insert_issue_decision_state", "conflict")
                    \/ Unauthorized(t))
                    => ~Called(log, "insert_job")

(* two commands on one issue: the first scheduled the job, the second, a    *)
(* merge that raced with it or came after it, scheduled nothing             *)
C20_Witness ==
    \E t, u \in Tasks :
        /\ t # u
        /\ pc[t] = "done" /\ pc[u] = "done"
        /\ inv[t].issue = inv[u].issue
        /\ Answered(calls[t], "insert_job", "ok")
        /\ Answered(calls[u], "insert_issue_decision_state", "conflict")
        /\ Cardinality(JobsFor(inv[t].issue)) = 1


(* the job in hand came from the jobs table *)
RunningScheduledJob ==
    /\ jpc # "idle"
    /\ \E row \in Range(jobs) : row.name = jarg.name /\ row.metadata = jarg.metadata

(* C21: every finalize job handle_command schedules carries the status      *)
(* Merge, written when the decision is opened; handle_job acts on that      *)
(* metadata alone (its only calls are the issue fetch and the terminal      *)
(* call, the decision state is not read), so whatever commands follow, hold *)
(* votes included, the terminal call of a scheduled job is merge and the    *)
(* issue is never closed.                                                   *)
C21_ScheduledJobsMerge ==
    /\ \A i \in 1..Len(jobs) :
        /\ jobs[i].name = DECISION_PROCESS_JOB_NAME
        /\ FromValue(jobs[i].metadata) # None
        /\ Unwrap(FromValue(jobs[i].metadata)).status = "Merge"
    /\ RunningScheduledJob =>
        /\ OpsOf(jcalls) \in {<<>>, <<"get_issue">>, <<"get_issue", "merge">>}
        /\ ~Called(jcalls, "close")
        /\ jpc = "terminal" => TerminalAction(jloc.status) = "merge"
    /\ \A a \in tracker : a.action = "merge"

(* a member's hold command found the open decision, and the scheduled job   *)
(* then merged the issue                                                    *)
C21_Witness ==
    /\ RunningScheduledJob
    /\ jpc = "done"
    /\ Answered(jcalls, "merge", "ok")
    /\ \E t \in Tasks :
        /\ pc[t] = "done"
        /\ inv[t].resolution = "Hold"
        /\ Answered(calls[t], "get_issue_decision_state", "found")
        /\ [action |-> "merge", url |-> IssueUrl(inv[t].issue)] \in tracker

====
